---- MODULE Spec2Model ----
(***************************************************************************)
(* A model of the GitHub API client of sync-team (src/github/api.rs).      *)
(*                                                                         *)
(* One client (struct GitHub: token, dry_run, client) executes one public  *)
(* operation at a time.  An operation runs from its call up to the point   *)
(* where a request has been dispatched and the client blocks on the        *)
(* response (pc = "wait"); the platform then answers and the operation     *)
(* runs on to its next request or to its return (pc = "done").  A panic    *)
(* (pc = "panic") aborts the process.                                      *)
(*                                                                         *)
(* Strings that the code inspects (URLs) are sequences of tokens, so that  *)
(* starts_with and contains are computed and not assumed.                  *)
(***************************************************************************)
EXTENDS Integers, Sequences, FiniteSets, TLC

VARIABLES
    dry_run,    \* GitHub.dry_run, set at construction
    call,       \* the public operation being executed, with its arguments
    pc,         \* "idle" | "wait" | "done" | "panic"
    sent,       \* the requests dispatched by the current call, in order
    recv,       \* the responses received by the current call, in order
    local,      \* the local variables of the operation being executed
    result,     \* what the current call returned
    shadow      \* SpecModes only: the same call on a client built with the other dry_run

vars == <<dry_run, call, pc, sent, recv, local, result, shadow>>

(***************************************************************************)
(* Bounds of the model.                                                    *)
(***************************************************************************)
\* The most requests one REST listing may take (the platform stops serving "next").
MaxPages == 3
\* The most queries one team_memberships call may take.
MaxQueries == 3
\* The longest id list handed to usernames.
MaxIds == 201

(***************************************************************************)
(* Option<T>, Result<T, E>                                                 *)
(***************************************************************************)
None == [some |-> FALSE]
Some(x) == [some |-> TRUE, val |-> x]

Ok(v) == [kind |-> "Ok", val |-> v]
Err(e) == [kind |-> "Err", err |-> e]
NoResult == [kind |-> "NoResult"]
Unit == "()"

(***************************************************************************)
(* Strings.  A URL is a sequence of tokens; Names are the values the       *)
(* callers pass for org, team, repo, user and branch names.  One of them   *)
(* has "graphql" as a substring.                                           *)
(***************************************************************************)
Names == {"acme", "graphql-x"}

\* The tokens of the model that have "graphql" as a substring.
GraphqlTokens == {"graphql", "graphql-x"}

\* str::starts_with("https://")
StartsWithHttps(url) == Len(url) > 0 /\ url[1] = "https://"

\* str::contains("graphql")
ContainsGraphql(url) == \E i \in DOMAIN url : url[i] \in GraphqlTokens

\* format!("https://api.github.com/{}", url)
ApiOrigin == <<"https://", "api.github.com/">>

Token == "secret-token"
UserAgent == "crate::USER_AGENT"

Methods == {"GET", "POST", "PUT", "PATCH", "DELETE"}

(***************************************************************************)
(* GitHub::req: the absolute URL, the dry-run guard, the request primed    *)
(* with the two headers.  The token is a valid header value.               *)
(***************************************************************************)
\* if url.starts_with("https://") { Borrowed(url) } else { Owned(format!(..)) }
AbsoluteUrl(url) == IF StartsWithHttps(url) THEN url ELSE ApiOrigin \o url

\* self.client.request(method, url).header(AUTHORIZATION, ..).header(USER_AGENT, ..)
Request(method, full) ==
    [method |-> method, url |-> full, body |-> None,
     authorization |-> <<"token ", Token>>, user_agent |-> UserAgent]

\* Mutant: the origin is put before every URL, absolute or not.
ReqAlwaysPrefix(dry, method, url) ==
    IF dry /\ method # "GET" /\ ~ContainsGraphql(ApiOrigin \o url)
    THEN [kind |-> "panic"]
    ELSE [kind |-> "built", req |-> Request(method, ApiOrigin \o url)]

\* Mutant: the guard forgets the method.
ReqGuardsReads(dry, method, url) ==
    IF dry /\ ~ContainsGraphql(AbsoluteUrl(url))
    THEN [kind |-> "panic"]
    ELSE [kind |-> "built", req |-> Request(method, AbsoluteUrl(url))]

Req(dry, method, url) ==
    IF dry /\ method # "GET" /\ ~ContainsGraphql(AbsoluteUrl(url))
    THEN [kind |-> "panic"]
    ELSE [kind |-> "built", req |-> Request(method, AbsoluteUrl(url))]

\* RequestBuilder::json(body)
WithJson(req, body) == [req EXCEPT !.body = Some(body)]

(***************************************************************************)
(* Responses.  The transport either fails (send() is an Err) or delivers   *)
(* a status, a Link header and a body.                                     *)
(***************************************************************************)
TransportError == [kind |-> "transport_error"]
Http(status, link, body) == [kind |-> "http", status |-> status, link |-> link, body |-> body]

Statuses == {200, 201, 204, 304, 404, 422, 500}

\* Response::error_for_status: an Err exactly for 4xx and 5xx.
IsErrorStatus(status) == status >= 400 /\ status < 600

\* A body that is not the JSON the caller decodes, and one that is.
BadJson == [json |-> FALSE]
Json(v) == [json |-> TRUE, val |-> v]

NoLink == [present |-> FALSE]

(***************************************************************************)
(* A frame: the part of the state one client's running operation owns.     *)
(***************************************************************************)
Frame(p, s, r, l, res) == [pc |-> p, sent |-> s, recv |-> r, local |-> l, result |-> res]

NoLocal == [none |-> TRUE]

\* panic!("Called a non-GET request in dry run mode: {}", method), and unwrap_err on an Ok
DryRunAbort == [kind |-> "Panic", msg |-> "Called a non-GET request in dry run mode"]
UnwrapErrOnOk == [kind |-> "Panic", msg |-> "called Result::unwrap_err() on an Ok value"]

Panicked(fr, why) == [fr EXCEPT !.pc = "panic", !.result = why]
Returned(fr, res) == [fr EXCEPT !.pc = "done", !.result = res]
Dispatched(fr, req) == [fr EXCEPT !.pc = "wait", !.sent = Append(fr.sent, req)]

Fresh == Frame("idle", <<>>, <<>>, NoLocal, NoResult)

(***************************************************************************)
(* The typed data model and the values the callers pass.                    *)
(***************************************************************************)
TeamPrivacy == {"Closed", "Secret"}
TeamRole == {"Member", "Maintainer"}
RepoPermission == {"Write", "Admin", "Maintain", "Triage"}

Descriptions == {"a description"}

\* struct Repo, as the callers hold it.
Repos == [name : Names, org : Names, description : {None}, default_branch : {"main"}]

\* struct BranchProtection
BranchProtections ==
    [dismiss_stale_reviews : {TRUE}, required_approving_review_count : {1},
     required_checks : {<<>>, <<"ci">>}, allowed_users : {<<>>}]

\* struct Team, as the callers hold it: a persisted one, and one "created" by a dry run.
TeamOf(id, name, description, privacy) ==
    [id |-> id, name |-> name, description |-> description, privacy |-> privacy]

Teams == {TeamOf(None, "acme", "a description", "Closed"),
          TeamOf(Some(7), "acme", "a description", "Closed")}

\* What the platform sends for a team, a repo and a branch, and what serde makes of it.
WireTeam == [id |-> 7, name |-> "acme", description |-> "a description", privacy |-> "closed"]
WireRepo == [name |-> "acme", owner |-> [login |-> "acme"], description |-> None,
             default_branch |-> "main"]
WireBranch == [name |-> "main", commit |-> [sha |-> "abc123"]]

\* #[serde(rename_all = "snake_case")] enum TeamPrivacy
DecodeTeamPrivacy(w) == IF w = "closed" THEN "Closed" ELSE "Secret"

\* #[derive(Deserialize)] struct Team
DecodeTeam(w) == TeamOf(Some(w.id), w.name, w.description, DecodeTeamPrivacy(w.privacy))

\* #[derive(Deserialize)] struct Repo, with repo_owner for org
DecodeRepo(w) ==
    [name |-> w.name, org |-> w.owner.login, description |-> w.description,
     default_branch |-> w.default_branch]

(***************************************************************************)
(* The errors an operation returns.                                         *)
(***************************************************************************)
TransportFailed == Err([type |-> "transport"])
StatusError(status) == Err([type |-> "status", status |-> status])
DecodeFailed == Err([type |-> "decode"])

(***************************************************************************)
(* GitHub::send and GitHub::send_option, each in two halves: up to the     *)
(* dispatch, and from the response on.                                     *)
(***************************************************************************)
\* self.req(method, url)?.json(body).send()
send_dispatch(d, fr, method, url, body) ==
    LET r == Req(d, method, url)
    IN  IF r.kind = "panic" THEN Panicked(fr, DryRunAbort) ELSE Dispatched(fr, WithJson(r.req, body))

\* .send()?.error_for_status()?
send_outcome(resp) ==
    IF resp.kind = "transport_error" THEN TransportFailed
    ELSE IF IsErrorStatus(resp.status) THEN StatusError(resp.status)
    ELSE Ok(resp)

\* self.req(method, url)?.send()
req_dispatch(d, fr, method, url) ==
    LET r == Req(d, method, url)
    IN  IF r.kind = "panic" THEN Panicked(fr, DryRunAbort) ELSE Dispatched(fr, r.req)

\* match resp.status() { OK => .., NOT_FOUND => .., _ => Err(resp.error_for_status().unwrap_err()) }
\* unwrap_err panics when error_for_status is Ok: every status outside 4xx and 5xx.
send_option_outcome(resp) ==
    IF resp.kind = "transport_error" THEN [kind |-> "return", res |-> TransportFailed]
    ELSE IF resp.status = 200
         THEN [kind |-> "return",
               res |-> IF resp.body.json THEN Ok(Some(resp.body.val)) ELSE DecodeFailed]
    ELSE IF resp.status = 404 THEN [kind |-> "return", res |-> Ok(None)]
    ELSE IF IsErrorStatus(resp.status)
         THEN [kind |-> "return", res |-> StatusError(resp.status)]
    ELSE [kind |-> "panic"]

\* The frame after send_option's response, the decoded value mapped by the caller.
send_option_finish(fr, resp, decoded) ==
    LET o == send_option_outcome(resp)
    IN  IF o.kind = "panic" THEN Panicked(fr, UnwrapErrOnOk)
        ELSE IF o.res.kind = "Ok" /\ o.res.val.some
             THEN Returned(fr, Ok(Some(decoded)))
             ELSE Returned(fr, o.res)

(***************************************************************************)
(* The fetch operations.                                                    *)
(***************************************************************************)
team(d, c, fr, resp) ==
    IF fr.pc = "idle"
    THEN req_dispatch(d, fr, "GET", <<"orgs/", c.org, "/teams/", c.team>>)
    ELSE send_option_finish(fr, resp, IF resp.kind = "http" /\ resp.body.json
                                      THEN DecodeTeam(resp.body.val) ELSE None)

repo(d, c, fr, resp) ==
    IF fr.pc = "idle"
    THEN req_dispatch(d, fr, "GET", <<"repos/", c.org, "/", c.repo>>)
    ELSE send_option_finish(fr, resp, IF resp.kind = "http" /\ resp.body.json
                                      THEN DecodeRepo(resp.body.val) ELSE None)

branch(d, c, fr, resp) ==
    IF fr.pc = "idle"
    THEN req_dispatch(d, fr, "GET",
                      <<"repos/", c.repo.org, "/", c.repo.name, "/branches/", c.name>>)
    ELSE send_option_finish(fr, resp, IF resp.kind = "http" /\ resp.body.json
                                      THEN resp.body.val.commit.sha ELSE None)

(***************************************************************************)
(* The mutating operations.  Each tests self.dry_run before it builds a    *)
(* request.                                                                *)
(***************************************************************************)
\* The return of an operation that ignores the payload of send's response.
sent_unit(fr, resp) ==
    LET o == send_outcome(resp)
    IN  Returned(fr, IF o.kind = "Err" THEN o ELSE Ok(Unit))

\* The return of an operation that decodes the payload of send's response.
sent_json(fr, resp, decoded) ==
    LET o == send_outcome(resp)
    IN  Returned(fr, IF o.kind = "Err" THEN o
                     ELSE IF resp.body.json THEN Ok(decoded) ELSE DecodeFailed)

create_team(d, c, fr, resp) ==
    IF fr.pc = "idle"
    THEN IF d
         THEN Returned(fr, Ok(TeamOf(None, c.name, c.description, c.privacy)))
         ELSE send_dispatch(d, fr, "POST", <<"orgs/", c.org, "/teams">>,
                            [name |-> c.name, description |-> c.description,
                             privacy |-> c.privacy])
    ELSE sent_json(fr, resp, IF resp.kind = "http" /\ resp.body.json
                             THEN DecodeTeam(resp.body.val) ELSE None)

edit_team(d, c, fr, resp) ==
    IF fr.pc = "idle"
    THEN IF ~d
         THEN send_dispatch(d, fr, "PATCH", <<"orgs/", c.org, "/teams/", c.name>>,
                            [name |-> c.new_name, description |-> c.new_description,
                             privacy |-> c.new_privacy])
         ELSE Returned(fr, Ok(Unit))
    ELSE sent_unit(fr, resp)

\* Mutant: the request is built whatever self.dry_run is.
delete_team_ungated(d, c, fr, resp) ==
    IF fr.pc = "idle"
    THEN req_dispatch(d, fr, "DELETE", <<"orgs/", c.org, "/teams/", c.team>>)
    ELSE sent_unit(fr, resp)

delete_team(d, c, fr, resp) ==
    IF fr.pc = "idle"
    THEN IF ~d
         THEN req_dispatch(d, fr, "DELETE", <<"orgs/", c.org, "/teams/", c.team>>)
         ELSE Returned(fr, Ok(Unit))
    ELSE sent_unit(fr, resp)

set_team_membership(d, c, fr, resp) ==
    IF fr.pc = "idle"
    THEN IF ~d
         THEN send_dispatch(d, fr, "PUT",
                            <<"orgs/", c.org, "/teams/", c.team, "/memberships/", c.user>>,
                            [role |-> c.role])
         ELSE Returned(fr, Ok(Unit))
    ELSE sent_unit(fr, resp)

\* Mutant: the request is built whatever self.dry_run is.
remove_team_membership_ungated(d, c, fr, resp) ==
    IF fr.pc = "idle"
    THEN req_dispatch(d, fr, "DELETE",
                      <<"orgs/", c.org, "/teams/", c.team, "/memberships/", c.user>>)
    ELSE sent_unit(fr, resp)

remove_team_membership(d, c, fr, resp) ==
    IF fr.pc = "idle"
    THEN IF ~d
         THEN req_dispatch(d, fr, "DELETE",
                           <<"orgs/", c.org, "/teams/", c.team, "/memberships/", c.user>>)
         ELSE Returned(fr, Ok(Unit))
    ELSE sent_unit(fr, resp)

\* Mutant: the dry run's repo has no description.
create_repo_drops_description(d, c, fr, resp) ==
    IF fr.pc = "idle"
    THEN IF d
         THEN Returned(fr, Ok([name |-> c.name, org |-> c.org, description |-> None,
                               default_branch |-> "main"]))
         ELSE send_dispatch(d, fr, "POST", <<"orgs/", c.org, "/repos">>,
                            [name |-> c.name, description |-> c.description])
    ELSE sent_json(fr, resp, IF resp.kind = "http" /\ resp.body.json
                             THEN DecodeRepo(resp.body.val) ELSE None)

create_repo(d, c, fr, resp) ==
    IF fr.pc = "idle"
    THEN IF d
         THEN Returned(fr, Ok([name |-> c.name, org |-> c.org,
                               description |-> Some(c.description),
                               default_branch |-> "main"]))
         ELSE send_dispatch(d, fr, "POST", <<"orgs/", c.org, "/repos">>,
                            [name |-> c.name, description |-> c.description])
    ELSE sent_json(fr, resp, IF resp.kind = "http" /\ resp.body.json
                             THEN DecodeRepo(resp.body.val) ELSE None)

edit_repo(d, c, fr, resp) ==
    IF fr.pc = "idle"
    THEN IF ~d
         THEN send_dispatch(d, fr, "PATCH", <<"repos/", c.repo.org, "/", c.repo.name>>,
                            [description |-> c.description])
         ELSE Returned(fr, Ok(Unit))
    ELSE sent_unit(fr, resp)

update_team_repo_permissions(d, c, fr, resp) ==
    IF fr.pc = "idle"
    THEN IF ~d
         THEN send_dispatch(d, fr, "PUT",
                            <<"orgs/", c.org, "/teams/", c.team, "/repos/", c.org, "/", c.repo>>,
                            [permission |-> c.permission])
         ELSE Returned(fr, Ok(Unit))
    ELSE sent_unit(fr, resp)

update_user_repo_permissions(d, c, fr, resp) ==
    IF fr.pc = "idle"
    THEN IF ~d
         THEN send_dispatch(d, fr, "PUT",
                            <<"repos/", c.org, "/", c.repo, "/collaborators/", c.user>>,
                            [permission |-> c.permission])
         ELSE Returned(fr, Ok(Unit))
    ELSE sent_unit(fr, resp)

remove_team_from_repo(d, c, fr, resp) ==
    IF fr.pc = "idle"
    THEN IF ~d
         THEN req_dispatch(d, fr, "DELETE",
                           <<"orgs/", c.org, "/teams/", c.team, "/repos/", c.org, "/", c.repo>>)
         ELSE Returned(fr, Ok(Unit))
    ELSE sent_unit(fr, resp)

remove_collaborator_from_repo(d, c, fr, resp) ==
    IF fr.pc = "idle"
    THEN IF ~d
         THEN req_dispatch(d, fr, "DELETE",
                           <<"repos/", c.org, "/", c.repo, "/collaborators/", c.collaborator>>)
         ELSE Returned(fr, Ok(Unit))
    ELSE sent_unit(fr, resp)

create_branch(d, c, fr, resp) ==
    IF fr.pc = "idle"
    THEN IF ~d
         THEN send_dispatch(d, fr, "POST",
                            <<"repos/", c.repo.org, "/", c.repo.name, "/git/refs">>,
                            [ref |-> <<"refs/heads/", c.name>>, sha |-> c.commit])
         ELSE Returned(fr, Ok(Unit))
    ELSE sent_unit(fr, resp)

\* The body update_branch_protection serializes.
BranchProtectionReq(bp) ==
    [required_status_checks |->
        [strict |-> FALSE,
         checks |-> [i \in DOMAIN bp.required_checks |-> [context |-> bp.required_checks[i]]]],
     enforce_admins |-> TRUE,
     required_pull_request_reviews |->
        [dismissal_restrictions |-> <<>>,
         dismiss_stale_reviews |-> bp.dismiss_stale_reviews,
         required_approving_review_count |-> bp.required_approving_review_count],
     restrictions |-> [users |-> bp.allowed_users, teams |-> <<>>]]

\* match resp.status() { OK => Ok(true), NOT_FOUND => Ok(false),
\*                       _ => { resp.error_for_status()?; Ok(false) } }
update_branch_protection(d, c, fr, resp) ==
    IF fr.pc = "idle"
    THEN IF ~d
         THEN send_dispatch(d, fr, "PUT",
                            <<"repos/", c.repo.org, "/", c.repo.name, "/branches/",
                              c.branch_name, "/protection">>,
                            BranchProtectionReq(c.branch_protection))
         ELSE Returned(fr, Ok(TRUE))
    ELSE IF resp.kind = "transport_error" THEN Returned(fr, TransportFailed)
    ELSE IF resp.status = 200 THEN Returned(fr, Ok(TRUE))
    ELSE IF resp.status = 404 THEN Returned(fr, Ok(FALSE))
    ELSE IF IsErrorStatus(resp.status) THEN Returned(fr, StatusError(resp.status))
    ELSE Returned(fr, Ok(FALSE))

delete_branch_protection(d, c, fr, resp) ==
    IF fr.pc = "idle"
    THEN IF ~d
         THEN req_dispatch(d, fr, "DELETE",
                           <<"repos/", c.repo.org, "/", c.repo.name, "/branches/",
                             c.branch, "/protection">>)
         ELSE Returned(fr, Ok(Unit))
    ELSE sent_unit(fr, resp)

(***************************************************************************)
(* The REST pagination engine.                                              *)
(***************************************************************************)
\* A Link header: absent, not parsable, or a list of link values <target>; rel="..".
BadLink == [present |-> TRUE, parses |-> FALSE]
Link(values) == [present |-> TRUE, parses |-> TRUE, values |-> values]
LinkValue(target, rel) == [link |-> target, rel |-> rel]

LinkFailed == Err([type |-> "link"])

\* link.rel().map(|r| r.iter().any(|r| *r == RelationType::Next)).unwrap_or(false)
IsNextLink(v) == v.rel.some /\ \E i \in DOMAIN v.rel.val : v.rel.val[i] = "next"

\* for link in links.values() { if .. { next = Some(link.link().to_string()); break; } }
NextOf(link) ==
    IF ~link.present THEN None
    ELSE LET hits == {i \in DOMAIN link.values : IsNextLink(link.values[i])}
         IN  IF hits = {} THEN None
             ELSE Some(link.values[CHOOSE i \in hits : \A j \in hits : i <= j].link)

\* #[serde(rename_all = "snake_case")] enum RepoPermission, Write renamed "push"
DecodeRepoPermission(w) ==
    CASE w = "push" -> "Write"
      [] w = "admin" -> "Admin"
      [] w = "maintain" -> "Maintain"
      [] OTHER -> "Triage"

\* The closures of the five listings.
InsertIds(acc, page) == acc \cup {page[i].id : i \in DOMAIN page}
InsertNames(acc, page) == acc \cup {page[i].name : i \in DOMAIN page}
PushRepoTeams(acc, page) ==
    acc \o [i \in DOMAIN page |->
              [name |-> page[i].name, permission |-> DecodeRepoPermission(page[i].permission)]]
PushRepoUsers(acc, page) ==
    acc \o [i \in DOMAIN page |->
              [name |-> page[i].login, permission |-> DecodeRepoPermission(page[i].permission)]]

\* f: FnMut(Response) -> anyhow::Result<()>, the closure a listing hands to
\* rest_paginated, named by the collection it fills.
FnMut(f, acc, page) ==
    CASE f = "owners" -> InsertIds(acc, page)
      [] f = "names" -> InsertNames(acc, page)
      [] f = "teams" -> PushRepoTeams(acc, page)
      [] f = "users" -> PushRepoUsers(acc, page)

\* while let Some(next_url) = next.take() { .. }: one turn of the loop per response.
\* local.acc is the collection the closure f captures, local.fed the responses f was
\* called with.
rest_paginated(d, fr, resp, method, url, f, empty) ==
    IF fr.pc = "idle"
    THEN req_dispatch(d, [fr EXCEPT !.local = [acc |-> empty, fed |-> <<>>]], method, url)
    ELSE IF resp.kind = "transport_error" THEN Returned(fr, TransportFailed)
    ELSE IF IsErrorStatus(resp.status) THEN Returned(fr, StatusError(resp.status))
    ELSE IF resp.link.present /\ ~resp.link.parses THEN Returned(fr, LinkFailed)
    ELSE LET next == NextOf(resp.link)
             called == [fr EXCEPT !.local.fed = Append(@, resp)]
         IN  IF ~resp.body.json THEN Returned(called, DecodeFailed)
             ELSE LET merged == [called EXCEPT !.local.acc = FnMut(f, @, resp.body.val)]
                  IN  IF next.some
                      THEN req_dispatch(d, merged, method, next.val)
                      ELSE Returned(merged, Ok(Unit))

\* self.rest_paginated(..)?; Ok(collection)
Collected(fr) ==
    IF fr.pc = "done" /\ fr.result.kind = "Ok"
    THEN [fr EXCEPT !.result = Ok(fr.local.acc)]
    ELSE fr

org_owners(d, c, fr, resp) ==
    Collected(rest_paginated(d, fr, resp, "GET",
                             <<"orgs/", c.org, "/members?role=admin">>, "owners", {}))

org_teams(d, c, fr, resp) ==
    Collected(rest_paginated(d, fr, resp, "GET",
                             <<"orgs/", c.org, "/teams">>, "names", {}))

repo_teams(d, c, fr, resp) ==
    Collected(rest_paginated(d, fr, resp, "GET",
                             <<"repos/", c.org, "/", c.repo, "/teams">>, "teams", <<>>))

repo_collaborators(d, c, fr, resp) ==
    Collected(rest_paginated(d, fr, resp, "GET",
                             <<"repos/", c.org, "/", c.repo, "/collaborators?affiliation=direct">>,
                             "users", <<>>))

protected_branches(d, c, fr, resp) ==
    Collected(rest_paginated(d, fr, resp, "GET",
                             <<"repos/", c.repo.org, "/", c.repo.name, "/branches?protected=true">>,
                             "names", {}))

(***************************************************************************)
(* The GraphQL engine.                                                      *)
(***************************************************************************)
\* #[derive(Deserialize)] struct GraphResult<T>: data may be null, errors may be missing.
DecodeGraphResult(w) ==
    [data |-> w.data, errors |-> IF w.errors.some THEN w.errors.val ELSE <<>>]

GraphqlError(message) == Err([type |-> "graphql", message |-> <<"graphql error: ", message>>])
MissingData == Err([type |-> "graphql", message |-> <<"missing graphql data">>])

\* self.req(Method::POST, "graphql")?.json(&Request { query, variables }).send()
graphql_dispatch(d, fr, query, variables) ==
    send_dispatch(d, fr, "POST", <<"graphql">>, [query |-> query, variables |-> variables])

\* Mutant: data is used when it is there, and the errors are looked at only without it.
graphql_outcome_prefers_data(resp) ==
    LET o == send_outcome(resp)
    IN  IF o.kind = "Err" THEN o
        ELSE IF ~resp.body.json THEN DecodeFailed
        ELSE LET res == DecodeGraphResult(resp.body.val)
             IN  IF res.data.some THEN Ok(res.data.val)
                 ELSE IF Len(res.errors) > 0 THEN GraphqlError(res.errors[1].message)
                 ELSE MissingData

\* .error_for_status()?.json()?, then the envelope
graphql_outcome(resp) ==
    LET o == send_outcome(resp)
    IN  IF o.kind = "Err" THEN o
        ELSE IF ~resp.body.json THEN DecodeFailed
        ELSE LET res == DecodeGraphResult(resp.body.val)
             IN  IF Len(res.errors) > 0 THEN GraphqlError(res.errors[1].message)
                 ELSE IF res.data.some THEN Ok(res.data.val)
                 ELSE MissingData

\* base64::encode(&format!("04:User{}", id)), base64::encode(&format!("04:Team{}", id))
user_node_id(id) == <<"base64", "04:User", id>>
team_node_id(id) == <<"base64", "04:Team", id>>

\* HashMap::insert
Insert(m, k, v) == (k :> v) @@ m
EmptyMap == << >>

(***************************************************************************)
(* usernames                                                              *)
(***************************************************************************)
ChunkSize == 100

Smaller(a, b) == IF a < b THEN a ELSE b

\* for node in res.nodes.into_iter().flatten() { result.insert(node.database_id, node.login) }
\* The loop as its net effect (a list of 100 nodes is too deep to recurse over): null
\* nodes are skipped, and of the nodes of one databaseId the last one inserted stays.
InsertNodes(m, nodes) ==
    LET present == {i \in DOMAIN nodes : nodes[i].some}
        keys == {nodes[i].val.databaseId : i \in present}
        last(k) == CHOOSE i \in present :
                      /\ nodes[i].val.databaseId = k
                      /\ \A j \in present : nodes[j].val.databaseId = k => j <= i
    IN  [k \in keys \cup DOMAIN m |-> IF k \in keys THEN nodes[last(k)].val.login ELSE m[k]]

\* slice::chunks(100): the next chunk and what is left of the slice after it.
ChunkHead(rest) == SubSeq(rest, 1, Smaller(ChunkSize, Len(rest)))
\* Mutant: the slice left after a chunk starts one element late.
ChunkTailSkips(rest) == SubSeq(rest, Smaller(ChunkSize, Len(rest)) + 2, Len(rest))

ChunkTail(rest) == SubSeq(rest, Smaller(ChunkSize, Len(rest)) + 1, Len(rest))

usernames_query(d, fr, rest) ==
    graphql_dispatch(d, [fr EXCEPT !.local.rest = ChunkTail(rest)], "usernames",
                     [ids |-> [i \in DOMAIN ChunkHead(rest) |-> user_node_id(ChunkHead(rest)[i])]])

usernames(d, c, fr, resp) ==
    IF fr.pc = "idle"
    THEN LET fr0 == [fr EXCEPT !.local = [result |-> EmptyMap, rest |-> c.ids, res |-> None]]
         IN  IF c.ids = <<>> THEN Returned(fr0, Ok(EmptyMap))
             ELSE usernames_query(d, fr0, c.ids)
    ELSE LET o == graphql_outcome(resp)
         IN  IF o.kind = "Err" THEN Returned(fr, o)
             ELSE LET fr1 == [fr EXCEPT !.local.res = Some(o.val),
                                            !.local.result = InsertNodes(@, o.val.nodes)]
                  IN  IF fr1.local.rest = <<>> THEN Returned(fr1, Ok(fr1.local.result))
                      ELSE usernames_query(d, fr1, fr1.local.rest)

(***************************************************************************)
(* team_memberships                                                       *)
(***************************************************************************)
\* GraphPageInfo::start
GraphPageInfo_start == [end_cursor |-> None, has_next_page |-> TRUE]

\* #[serde(rename_all = "camelCase")] struct GraphPageInfo
DecodePageInfo(w) == [end_cursor |-> w.endCursor, has_next_page |-> w.hasNextPage]

\* #[serde(rename_all(deserialize = "SCREAMING_SNAKE_CASE"))] enum TeamRole
DecodeTeamRole(w) == IF w = "MEMBER" THEN "Member" ELSE "Maintainer"

\* for edge in team.members.edges { memberships.insert(edge.node.database_id, TeamMember {..}) }
RECURSIVE InsertEdges(_, _)
InsertEdges(m, edges) ==
    IF edges = <<>> THEN m
    ELSE LET e == Head(edges)
         IN  InsertEdges(Insert(m, e.node.databaseId,
                                [username |-> e.node.login, role |-> DecodeTeamRole(e.role)]),
                         Tail(edges))

\* Mutant: every query is sent with the cursor of the start.
memberships_loop_first_cursor(d, c, fr) ==
    IF fr.local.page_info.has_next_page
    THEN graphql_dispatch(d, fr, "team_memberships",
                          [team |-> team_node_id(c.team.id.val),
                           cursor |-> GraphPageInfo_start.end_cursor])
    ELSE Returned(fr, Ok(fr.local.memberships))

\* while page_info.has_next_page { let res = self.graphql(QUERY, Params { team, cursor })?; .. }
memberships_loop(d, c, fr) ==
    IF fr.local.page_info.has_next_page
    THEN graphql_dispatch(d, fr, "team_memberships",
                          [team |-> team_node_id(c.team.id.val),
                           cursor |-> fr.local.page_info.end_cursor])
    ELSE Returned(fr, Ok(fr.local.memberships))

\* Mutant: a team without an id is queried like any other, as node 0.
team_memberships_unguarded(d, c, fr, resp) ==
    IF fr.pc = "idle"
    THEN graphql_dispatch(d, [fr EXCEPT !.local = [page_info |-> GraphPageInfo_start,
                                                   memberships |-> EmptyMap, res |-> None]],
                          "team_memberships",
                          [team |-> team_node_id(IF c.team.id.some THEN c.team.id.val ELSE 0),
                           cursor |-> None])
    ELSE LET o == graphql_outcome(resp)
         IN  IF o.kind = "Err" THEN Returned(fr, o)
             ELSE Returned(fr, Ok(fr.local.memberships))

team_memberships(d, c, fr, resp) ==
    IF fr.pc = "idle"
    THEN IF c.team.id.some
         THEN memberships_loop(d, c, [fr EXCEPT !.local = [page_info |-> GraphPageInfo_start,
                                                           memberships |-> EmptyMap,
                                                           res |-> None]])
         ELSE Returned(fr, Ok(EmptyMap))
    ELSE LET o == graphql_outcome(resp)
         IN  IF o.kind = "Err" THEN Returned(fr, o)
             ELSE IF o.val.node.some
                  THEN LET members == o.val.node.val.members
                       IN  memberships_loop(d, c,
                             [fr EXCEPT !.local.res = Some(o.val),
                                        !.local.page_info = DecodePageInfo(members.pageInfo),
                                        !.local.memberships = InsertEdges(@, members.edges)])
                  ELSE memberships_loop(d, c, [fr EXCEPT !.local.res = Some(o.val)])

(***************************************************************************)
(* The calls the callers make.                                              *)
(***************************************************************************)
NoCall == [op |-> "none"]

FetchOps == {"team", "repo", "branch"}
ListOps == {"org_owners", "org_teams", "repo_teams", "repo_collaborators", "protected_branches"}
GraphOps == {"usernames", "team_memberships"}
ReadOps == FetchOps \cup ListOps \cup GraphOps
MutatingOps == {"create_team", "edit_team", "delete_team", "set_team_membership",
                "remove_team_membership", "create_repo", "edit_repo",
                "update_team_repo_permissions", "update_user_repo_permissions",
                "remove_team_from_repo", "remove_collaborator_from_repo", "create_branch",
                "update_branch_protection", "delete_branch_protection"}

\* The id lists handed to usernames: the lengths up to MaxIds that are at, just under or
\* just over a multiple of the chunk size, with ids unlike their index.
IdLengths == {n \in 0..MaxIds : n % ChunkSize \in {0, 1, 2, ChunkSize - 1}}
IdLists == {[i \in 1..n |-> n + 1 - i] : n \in IdLengths}

\* The repositories whose listings are taken.
ListedRepos == {r \in Repos : r.name = "acme"}

Calls ==
    [op : {"team"}, org : Names, team : Names]
    \cup [op : {"repo"}, org : Names, repo : Names]
    \cup [op : {"branch"}, repo : Repos, name : Names]
    \cup [op : {"org_owners", "org_teams"}, org : Names]
    \cup [op : {"repo_teams", "repo_collaborators"}, org : Names, repo : {"acme"}]
    \cup [op : {"protected_branches"}, repo : ListedRepos]
    \cup [op : {"usernames"}, ids : IdLists]
    \cup [op : {"team_memberships"}, team : Teams]
    \cup [op : {"create_team"}, org : Names, name : Names, description : Descriptions,
          privacy : TeamPrivacy]
    \cup [op : {"edit_team"}, org : Names, name : Names, new_name : {None, Some("acme")},
          new_description : {None}, new_privacy : {None, Some("Secret")}]
    \cup [op : {"delete_team"}, org : Names, team : Names]
    \cup [op : {"set_team_membership"}, org : Names, team : Names, user : Names, role : TeamRole]
    \cup [op : {"remove_team_membership"}, org : Names, team : Names, user : Names]
    \cup [op : {"create_repo"}, org : Names, name : Names, description : Descriptions]
    \cup [op : {"edit_repo"}, repo : Repos, description : Descriptions]
    \cup [op : {"update_team_repo_permissions"}, org : Names, repo : Names, team : Names,
          permission : RepoPermission]
    \cup [op : {"update_user_repo_permissions"}, org : Names, repo : Names, user : Names,
          permission : RepoPermission]
    \cup [op : {"remove_team_from_repo"}, org : Names, repo : Names, team : Names]
    \cup [op : {"remove_collaborator_from_repo"}, org : Names, repo : Names,
          collaborator : Names]
    \cup [op : {"create_branch"}, repo : Repos, name : Names, commit : {"abc123"}]
    \cup [op : {"update_branch_protection"}, repo : Repos, branch_name : Names,
          branch_protection : BranchProtections]
    \cup [op : {"delete_branch_protection"}, repo : Repos, branch : Names]

CallsOf(o) == {c \in Calls : c.op = o}

(***************************************************************************)
(* The platform: what it may answer to the request a call is blocked on.    *)
(***************************************************************************)
\* Targets of the links the platform serves: absolute URLs on its own origin.
NextUrlA == ApiOrigin \o <<"organizations/1/items?page=2">>
NextUrlB == ApiOrigin \o <<"organizations/1/items?page=3">>
PrevUrl == ApiOrigin \o <<"organizations/1/items?page=1">>

ListStatuses == {200, 404}
GraphStatuses == {200, 500}

\* Link headers without a "next" relation, and with one (the first "next" is followed).
LastLinks == {NoLink, BadLink,
              Link(<<LinkValue(PrevUrl, Some(<<"prev">>)), LinkValue(NextUrlA, None)>>)}
MoreLinks == {Link(<<LinkValue(PrevUrl, Some(<<"prev">>)), LinkValue(NextUrlA, Some(<<"next">>))>>),
              Link(<<LinkValue(NextUrlB, Some(<<"last", "next">>)),
                     LinkValue(NextUrlA, Some(<<"next">>))>>)}

\* The items of a page, per listing, as the platform sends them.
WireItems(o) ==
    CASE o = "org_owners" -> <<[id |-> 11], [id |-> 12]>>
      [] o = "org_teams" -> <<WireTeam, [WireTeam EXCEPT !.name = "infra"]>>
      [] o = "repo_teams" -> <<[name |-> "acme", permission |-> "push"],
                               [name |-> "infra", permission |-> "admin"]>>
      [] o = "repo_collaborators" -> <<[login |-> "alice", permission |-> "maintain"],
                                       [login |-> "bob", permission |-> "triage"]>>
      [] o = "protected_branches" -> <<WireBranch, [WireBranch EXCEPT !.name = "stable"]>>

PageBodies(o) == {BadJson, Json(<<WireItems(o)[1]>>), Json(<<WireItems(o)[2], WireItems(o)[1]>>)}

PageResponses(o, n) ==
    {TransportError}
    \cup {Http(s, l, b) : s \in ListStatuses,
                          l \in LastLinks \cup (IF n < MaxPages THEN MoreLinks ELSE {}),
                          b \in PageBodies(o)}

FetchBodies(o) ==
    CASE o = "team" -> {BadJson, Json(WireTeam)}
      [] o = "repo" -> {BadJson, Json(WireRepo)}
      [] o = "branch" -> {BadJson, Json(WireBranch)}

FetchResponses(o) == {TransportError} \cup {Http(s, NoLink, b) : s \in Statuses, b \in FetchBodies(o)}

MutationBodies(o) ==
    CASE o = "create_team" -> {BadJson, Json(WireTeam)}
      [] o = "create_repo" -> {BadJson, Json(WireRepo)}
      [] OTHER -> {BadJson}

MutationResponses(o) ==
    {TransportError} \cup {Http(s, NoLink, b) : s \in Statuses, b \in MutationBodies(o)}

\* GraphQL envelopes around a data value: every shape of {data, errors}, and the ones
\* the platform sends day to day.
PlainEnvelopes(data) ==
    {BadJson,
     Json([data |-> Some(data), errors |-> None]),
     Json([data |-> Some(data), errors |-> Some(<<[message |-> "first"], [message |-> "second"]>>)]),
     Json([data |-> None, errors |-> None])}

Envelopes(data) ==
    {BadJson,
     Json([data |-> Some(data), errors |-> None]),
     Json([data |-> Some(data), errors |-> Some(<<>>)]),
     Json([data |-> Some(data), errors |-> Some(<<[message |-> "first"], [message |-> "second"]>>)]),
     Json([data |-> None, errors |-> Some(<<[message |-> "only"]>>)]),
     Json([data |-> None, errors |-> Some(<<>>)]),
     Json([data |-> None, errors |-> None])}

GraphResponses(bodies) ==
    {TransportError} \cup {Http(s, NoLink, b) : s \in GraphStatuses, b \in bodies}

\* nodes(ids: $ids): the platform resolves each id to the user or to null.  It knows
\* every user, none, or those with an odd id.
Resolved(id, known) ==
    IF known = "all" \/ (known = "odd" /\ id[3] % 2 = 1)
    THEN Some([databaseId |-> id[3], login |-> <<"login-of", id[3]>>])
    ELSE None

NodesDatas(request) ==
    {[nodes |-> [i \in DOMAIN request.body.val.variables.ids |->
                   Resolved(request.body.val.variables.ids[i], known)]] :
        known \in {"all", "none", "odd"}}

\* node(id: $team) { members(after: $cursor) { pageInfo edges } }: the team's members
\* by pages, or null for the node.  The same user may come twice.
MemberEdges ==
    {<<[role |-> "MEMBER", node |-> [databaseId |-> 1, login |-> "alice"]]>>,
     <<[role |-> "MAINTAINER", node |-> [databaseId |-> 1, login |-> "alice-renamed"]],
       [role |-> "MEMBER", node |-> [databaseId |-> 2, login |-> "bob"]]>>}

Cursors == {None, Some("cursor-1")}

MembersDatas(n) ==
    {[node |-> Some([members |-> [pageInfo |-> [endCursor |-> cur, hasNextPage |-> more],
                                  edges |-> edges]])] :
        cur \in Cursors, edges \in MemberEdges,
        more \in (IF n < MaxQueries THEN BOOLEAN ELSE {FALSE})}
    \cup (IF n < MaxQueries THEN {[node |-> None]} ELSE {})

Responses(c, fr) ==
    CASE c.op \in FetchOps -> FetchResponses(c.op)
      [] c.op \in ListOps -> PageResponses(c.op, Len(fr.sent))
      [] c.op = "usernames" ->
            GraphResponses(UNION {Envelopes(x) : x \in NodesDatas(fr.sent[Len(fr.sent)])})
      [] c.op = "team_memberships" ->
            GraphResponses(UNION {PlainEnvelopes(x) : x \in MembersDatas(Len(fr.sent))})
      [] OTHER -> MutationResponses(c.op)

(***************************************************************************)
(* The state machine.                                                       *)
(***************************************************************************)
NoResponse == [kind |-> "none"]

Run(d, c, fr, resp) ==
    CASE c.op = "team" -> team(d, c, fr, resp)
      [] c.op = "repo" -> repo(d, c, fr, resp)
      [] c.op = "branch" -> branch(d, c, fr, resp)
      [] c.op = "org_owners" -> org_owners(d, c, fr, resp)
      [] c.op = "org_teams" -> org_teams(d, c, fr, resp)
      [] c.op = "repo_teams" -> repo_teams(d, c, fr, resp)
      [] c.op = "repo_collaborators" -> repo_collaborators(d, c, fr, resp)
      [] c.op = "protected_branches" -> protected_branches(d, c, fr, resp)
      [] c.op = "usernames" -> usernames(d, c, fr, resp)
      [] c.op = "team_memberships" -> team_memberships(d, c, fr, resp)
      [] c.op = "create_team" -> create_team(d, c, fr, resp)
      [] c.op = "edit_team" -> edit_team(d, c, fr, resp)
      [] c.op = "delete_team" -> delete_team(d, c, fr, resp)
      [] c.op = "set_team_membership" -> set_team_membership(d, c, fr, resp)
      [] c.op = "remove_team_membership" -> remove_team_membership(d, c, fr, resp)
      [] c.op = "create_repo" -> create_repo(d, c, fr, resp)
      [] c.op = "edit_repo" -> edit_repo(d, c, fr, resp)
      [] c.op = "update_team_repo_permissions" -> update_team_repo_permissions(d, c, fr, resp)
      [] c.op = "update_user_repo_permissions" -> update_user_repo_permissions(d, c, fr, resp)
      [] c.op = "remove_team_from_repo" -> remove_team_from_repo(d, c, fr, resp)
      [] c.op = "remove_collaborator_from_repo" -> remove_collaborator_from_repo(d, c, fr, resp)
      [] c.op = "create_branch" -> create_branch(d, c, fr, resp)
      [] c.op = "update_branch_protection" -> update_branch_protection(d, c, fr, resp)
      [] c.op = "delete_branch_protection" -> delete_branch_protection(d, c, fr, resp)

Current == Frame(pc, sent, recv, local, result)

Adopt(fr) ==
    /\ pc' = fr.pc
    /\ sent' = fr.sent
    /\ recv' = fr.recv
    /\ local' = fr.local
    /\ result' = fr.result

Received(fr, resp) == [fr EXCEPT !.recv = Append(@, resp)]

Init ==
    /\ dry_run \in BOOLEAN
    /\ call = NoCall
    /\ pc = "idle"
    /\ sent = <<>>
    /\ recv = <<>>
    /\ local = NoLocal
    /\ result = NoResult
    /\ shadow = Fresh

\* A caller invokes an operation: it runs to its first request, or to its return.
Begin(c) ==
    /\ pc = "idle"
    /\ call' = c
    /\ Adopt(Run(dry_run, c, Fresh, NoResponse))
    /\ UNCHANGED <<dry_run, shadow>>

Call_team == \E c \in CallsOf("team") : Begin(c)
Call_repo == \E c \in CallsOf("repo") : Begin(c)
Call_branch == \E c \in CallsOf("branch") : Begin(c)
Call_org_owners == \E c \in CallsOf("org_owners") : Begin(c)
Call_org_teams == \E c \in CallsOf("org_teams") : Begin(c)
Call_repo_teams == \E c \in CallsOf("repo_teams") : Begin(c)
Call_repo_collaborators == \E c \in CallsOf("repo_collaborators") : Begin(c)
Call_protected_branches == \E c \in CallsOf("protected_branches") : Begin(c)
Call_usernames == \E c \in CallsOf("usernames") : Begin(c)
Call_team_memberships == \E c \in CallsOf("team_memberships") : Begin(c)
Call_create_team == \E c \in CallsOf("create_team") : Begin(c)
Call_edit_team == \E c \in CallsOf("edit_team") : Begin(c)
Call_delete_team == \E c \in CallsOf("delete_team") : Begin(c)
Call_set_team_membership == \E c \in CallsOf("set_team_membership") : Begin(c)
Call_remove_team_membership == \E c \in CallsOf("remove_team_membership") : Begin(c)
Call_create_repo == \E c \in CallsOf("create_repo") : Begin(c)
Call_edit_repo == \E c \in CallsOf("edit_repo") : Begin(c)
Call_update_team_repo_permissions == \E c \in CallsOf("update_team_repo_permissions") : Begin(c)
Call_update_user_repo_permissions == \E c \in CallsOf("update_user_repo_permissions") : Begin(c)
Call_remove_team_from_repo == \E c \in CallsOf("remove_team_from_repo") : Begin(c)
Call_remove_collaborator_from_repo == \E c \in CallsOf("remove_collaborator_from_repo") : Begin(c)
Call_create_branch == \E c \in CallsOf("create_branch") : Begin(c)
Call_update_branch_protection == \E c \in CallsOf("update_branch_protection") : Begin(c)
Call_delete_branch_protection == \E c \in CallsOf("delete_branch_protection") : Begin(c)

\* The platform answers: the operation runs to its next request, or to its return.
Respond ==
    /\ pc = "wait"
    /\ \E resp \in Responses(call, Current) :
          Adopt(Run(dry_run, call, Received(Current, resp), resp))
    /\ UNCHANGED <<dry_run, call, shadow>>

\* The caller has the result; the client keeps nothing of the call.
Return ==
    /\ pc = "done"
    /\ call' = NoCall
    /\ Adopt(Fresh)
    /\ UNCHANGED <<dry_run, shadow>>

Next ==
    \/ Call_team
    \/ Call_repo
    \/ Call_branch
    \/ Call_org_owners
    \/ Call_org_teams
    \/ Call_repo_teams
    \/ Call_repo_collaborators
    \/ Call_protected_branches
    \/ Call_usernames
    \/ Call_team_memberships
    \/ Call_create_team
    \/ Call_edit_team
    \/ Call_delete_team
    \/ Call_set_team_membership
    \/ Call_remove_team_membership
    \/ Call_create_repo
    \/ Call_edit_repo
    \/ Call_update_team_repo_permissions
    \/ Call_update_user_repo_permissions
    \/ Call_remove_team_from_repo
    \/ Call_remove_collaborator_from_repo
    \/ Call_create_branch
    \/ Call_update_branch_protection
    \/ Call_delete_branch_protection
    \/ Respond
    \/ Return

Spec == Init /\ [][Next]_vars

(***************************************************************************)
(* SpecModes: two clients, one built with dry_run and one with its          *)
(* opposite (the shadow), are given the same read calls and the same        *)
(* responses.                                                               *)
(***************************************************************************)
ReadCalls == {c \in Calls : c.op \in ReadOps}

ModesCall ==
    /\ pc = "idle"
    /\ \E c \in ReadCalls :
          /\ call' = c
          /\ Adopt(Run(dry_run, c, Fresh, NoResponse))
          /\ shadow' = Run(~dry_run, c, Fresh, NoResponse)
    /\ UNCHANGED dry_run

ModesRespond ==
    /\ pc = "wait"
    /\ \E resp \in Responses(call, Current) :
          /\ Adopt(Run(dry_run, call, Received(Current, resp), resp))
          /\ shadow' = IF shadow.pc = "wait"
                       THEN Run(~dry_run, call, Received(shadow, resp), resp)
                       ELSE shadow
    /\ UNCHANGED <<dry_run, call>>

ModesReturn ==
    /\ pc = "done"
    /\ call' = NoCall
    /\ Adopt(Fresh)
    /\ shadow' = Fresh
    /\ UNCHANGED dry_run

NextModes == ModesCall \/ ModesRespond \/ ModesReturn

SpecModes == Init /\ [][NextModes]_vars

(***************************************************************************)
(* SpecReq: the request builder on its own, given every method and a set    *)
(* of relative and absolute URLs.                                           *)
(***************************************************************************)
ReqUrls ==
    {<<"graphql">>, ApiOrigin \o <<"graphql">>, NextUrlA, NextUrlB}
    \cup {<<"orgs/", o, "/teams/", t>> : o \in Names, t \in Names}
    \cup {<<"repos/", o, "/", r, "/branches/", "main", "/protection">> : o \in Names, r \in Names}

ReqCall ==
    /\ pc = "idle"
    /\ \E method \in Methods, url \in ReqUrls :
          /\ call' = [op |-> "req", method |-> method, url |-> url]
          /\ LET r == Req(dry_run, method, url)
             IN  Adopt(IF r.kind = "panic" THEN Panicked(Fresh, DryRunAbort)
                       ELSE Returned(Fresh, Ok(r.req)))
    /\ UNCHANGED <<dry_run, shadow>>

ReqReturn ==
    /\ pc = "done"
    /\ call' = NoCall
    /\ Adopt(Fresh)
    /\ UNCHANGED <<dry_run, shadow>>

NextReq == ReqCall \/ ReqReturn

SpecReq == Init /\ [][NextReq]_vars

(***************************************************************************)
(* SpecLoop: team_memberships with no limit on the number of queries.  The  *)
(* loop of the operation has no counter, so the log of the call is kept as  *)
(* a window of its last LogWindow exchanges; every query is answered        *)
(* (weak fairness of the platform's step).                                   *)
(***************************************************************************)
LogWindow == 2

\* The frame with the log cut back to the query in flight once the window is full.
Window(fr) ==
    IF Len(fr.recv) >= LogWindow
    THEN [fr EXCEPT !.sent = <<fr.sent[Len(fr.sent)]>>, !.recv = <<>>]
    ELSE fr

\* Whatever the platform may answer to a membership query, whichever query it is.
LoopResponses == GraphResponses(UNION {PlainEnvelopes(x) : x \in MembersDatas(1)})

LoopCall == \E c \in CallsOf("team_memberships") : Begin(c)

LoopRespond ==
    /\ pc = "wait"
    /\ \E resp \in LoopResponses :
          Adopt(Run(dry_run, call, Received(Window(Current), resp), resp))
    /\ UNCHANGED <<dry_run, call, shadow>>

NextLoop == LoopCall \/ LoopRespond \/ Return

SpecLoop == Init /\ [][NextLoop]_vars /\ WF_vars(LoopRespond)

(***************************************************************************)
(* The claims.                                                              *)
(***************************************************************************)
Last(seq) == seq[Len(seq)]

\* C1: on a client built with dry_run = true a call of a mutating operation has
\* returned as soon as it is made, has returned success and has dispatched no
\* request; this holds of every call of every sequence of calls.
C1_DryRunMutationsSendNothing ==
    (dry_run /\ call.op \in MutatingOps) =>
        /\ pc = "done"
        /\ sent = <<>>
        /\ recv = <<>>
        /\ result.kind = "Ok"

C1_Witness ==
    /\ dry_run
    /\ call.op = "delete_team"
    /\ pc = "done"
    /\ result = Ok(Unit)
    /\ sent = <<>>

\* C2: in req, with dry-run active, a method other than GET aimed at a target that is
\* not the GraphQL endpoint aborts: no request is built.  (Stated as claimed; the code
\* lets through every URL that has "graphql" in it.)
IsGraphqlEndpoint(url) == AbsoluteUrl(url) = ApiOrigin \o <<"graphql">>

C2_AbortsEveryMutationOffGraphql ==
    (call.op = "req" /\ dry_run /\ call.method # "GET" /\ ~IsGraphqlEndpoint(call.url)) =>
        (pc = "panic" /\ result = DryRunAbort)

\* C3: a fetch (team, repo, branch) that got a response returns absent for status 404,
\* the decoded value for status 200, and an error for every other status, 2xx
\* included.  (Stated as claimed; the code panics on the statuses outside 4xx and 5xx.)
C3_FetchMapsStatus ==
    (call.op \in FetchOps /\ recv # <<>> /\ recv[1].kind = "http") =>
        CASE recv[1].status = 404 -> pc = "done" /\ result = Ok(None)
          [] recv[1].status = 200 /\ recv[1].body.json ->
                pc = "done" /\ result.kind = "Ok" /\ result.val.some
          [] recv[1].status = 200 /\ ~recv[1].body.json -> pc = "done"
          [] OTHER -> pc = "done" /\ result.kind = "Err"

\* C4: update_branch_protection with dry-run off sends one PUT and returns true for
\* status 200, false for 404 and an error for every other status; with dry-run on it
\* returns true without a request.  (Stated as claimed; the code returns false for
\* the statuses outside 4xx and 5xx too.)
C4_FalseOnlyFor404 ==
    (call.op = "update_branch_protection" /\ pc = "done") =>
        IF dry_run
        THEN sent = <<>> /\ result = Ok(TRUE)
        ELSE /\ Len(sent) = 1
             /\ sent[1].method = "PUT"
             /\ recv[1].kind = "http" =>
                  CASE recv[1].status = 200 -> result = Ok(TRUE)
                    [] recv[1].status = 404 -> result = Ok(FALSE)
                    [] OTHER -> result.kind = "Err"

\* C5: a listing whose responses so far were all successful pages has called the
\* accumulation step once per page, in page order; its first request went to the
\* start path, and the request after a page that carries a "next" link went to that
\* link, unchanged; after N pages of which only the last carries no "next" link it has
\* made exactly N requests, has stopped and has returned the merge of the N pages.
\* The platform serves absolute https links (section 6 of the specification).
GoodPage(r) ==
    /\ r.kind = "http"
    /\ r.status \in 200..299
    /\ r.link.present => r.link.parses
    /\ r.body.json

\* The targets of the link values whose relation types include "next".
NextTargets(r) ==
    IF ~r.link.present THEN {}
    ELSE {r.link.values[i].link : i \in {j \in DOMAIN r.link.values :
              /\ r.link.values[j].rel.some
              /\ "next" \in {r.link.values[j].rel.val[k] : k \in DOMAIN r.link.values[j].rel.val}}}

StartPath(c) ==
    CASE c.op = "org_owners" -> <<"orgs/", c.org, "/members?role=admin">>
      [] c.op = "org_teams" -> <<"orgs/", c.org, "/teams">>
      [] c.op = "repo_teams" -> <<"repos/", c.org, "/", c.repo, "/teams">>
      [] c.op = "repo_collaborators" ->
            <<"repos/", c.org, "/", c.repo, "/collaborators?affiliation=direct">>
      [] c.op = "protected_branches" ->
            <<"repos/", c.repo.org, "/", c.repo.name, "/branches?protected=true">>

\* The items of all pages, in page order.
RECURSIVE AllItems(_)
AllItems(pages) ==
    IF pages = <<>> THEN <<>> ELSE Head(pages).body.val \o AllItems(Tail(pages))

PermissionOf(w) ==
    CASE w = "push" -> "Write" [] w = "admin" -> "Admin"
      [] w = "maintain" -> "Maintain" [] w = "triage" -> "Triage"

MergedPages(c, pages) ==
    LET items == AllItems(pages)
    IN  CASE c.op = "org_owners" -> {items[i].id : i \in DOMAIN items}
          [] c.op \in {"org_teams", "protected_branches"} -> {items[i].name : i \in DOMAIN items}
          [] c.op = "repo_teams" ->
                [i \in DOMAIN items |->
                   [name |-> items[i].name, permission |-> PermissionOf(items[i].permission)]]
          [] c.op = "repo_collaborators" ->
                [i \in DOMAIN items |->
                   [name |-> items[i].login, permission |-> PermissionOf(items[i].permission)]]

C5_PaginationFollowsNext ==
    (call.op \in ListOps /\ \A k \in DOMAIN recv : GoodPage(recv[k])) =>
        LET n == Len(recv)
        IN  /\ local.fed = recv
            /\ Len(sent) >= 1
            /\ sent[1].url = ApiOrigin \o StartPath(call)
            /\ \A k \in DOMAIN sent : sent[k].method = "GET" /\ ~sent[k].body.some
            /\ \A k \in 1..n : NextTargets(recv[k]) # {} =>
                  /\ Len(sent) > k
                  /\ sent[k + 1].url \in NextTargets(recv[k])
            /\ (n >= 1 /\ NextTargets(recv[n]) = {}) =>
                  /\ pc = "done"
                  /\ Len(sent) = n
                  /\ result = Ok(MergedPages(call, recv))
            /\ (n = 0 \/ NextTargets(recv[n]) # {}) =>
                  /\ pc = "wait"
                  /\ Len(sent) = n + 1

C5_Witness ==
    /\ call.op = "repo_teams"
    /\ pc = "done"
    /\ Len(recv) = MaxPages
    /\ \A k \in DOMAIN recv : GoodPage(recv[k])
    /\ Len(sent) = MaxPages
    /\ result.kind = "Ok"
    /\ Len(result.val) > MaxPages

\* C6: whenever a GraphQL query is answered with an envelope, then: if its errors list
\* is non-empty the call has failed with the first error's message, data or no data;
\* else if data is absent the call has failed; else the data is what the query
\* returned to the operation, which has not failed.
C6_EnvelopeUnwrapping ==
    (/\ call.op \in GraphOps
     /\ recv # <<>>
     /\ Last(recv).kind = "http"
     /\ ~IsErrorStatus(Last(recv).status)
     /\ Last(recv).body.json) =>
        LET env == Last(recv).body.val
            errors == IF env.errors.some THEN env.errors.val ELSE <<>>
        IN  IF errors # <<>>
            THEN /\ pc = "done"
                 /\ result = Err([type |-> "graphql",
                                  message |-> <<"graphql error: ", errors[1].message>>])
            ELSE IF ~env.data.some
            THEN /\ pc = "done"
                 /\ result = Err([type |-> "graphql", message |-> <<"missing graphql data">>])
            ELSE /\ pc \in {"wait", "done"}
                 /\ result.kind # "Err"
                 /\ local.res = Some(env.data.val)

C6_Witness ==
    /\ call.op = "usernames"
    /\ pc = "done"
    /\ recv # <<>>
    /\ Last(recv).kind = "http"
    /\ Last(recv).status = 200
    /\ Last(recv).body.json
    /\ Last(recv).body.val.data.some
    /\ Last(recv).body.val.errors.some
    /\ Len(Last(recv).body.val.errors.val) > 1
    /\ result.kind = "Err"

\* C7: while all queries of a usernames call succeed, query k carries the ids at the
\* positions (k-1)*100+1 .. min(k*100, count) of the list, encoded, in input order;
\* the call ends after exactly ceil(count/100) queries (none for an empty list) and
\* returns the mapping databaseId -> login of exactly the non-null nodes returned.
GoodQuery(r) ==
    /\ r.kind = "http"
    /\ ~IsErrorStatus(r.status)
    /\ r.body.json
    /\ r.body.val.data.some
    /\ r.body.val.errors.some => r.body.val.errors.val = <<>>

ChunksNeeded(count) == (count + ChunkSize - 1) \div ChunkSize

ExpectedChunk(ids, k) ==
    [i \in 1..Smaller(ChunkSize, Len(ids) - (k - 1) * ChunkSize) |->
        <<"base64", "04:User", ids[(k - 1) * ChunkSize + i]>>]

NodesReturned(responses) ==
    UNION {{responses[k].body.val.data.val.nodes[i] :
               i \in DOMAIN responses[k].body.val.data.val.nodes} : k \in DOMAIN responses}
    \ {None}

C7_UsernamesChunks ==
    (call.op = "usernames" /\ \A k \in DOMAIN recv : GoodQuery(recv[k])) =>
        LET need == ChunksNeeded(Len(call.ids))
            nodes == NodesReturned(recv)
        IN  /\ pc \in {"wait", "done"}
            /\ Len(sent) <= need
            /\ \A k \in DOMAIN sent :
                  /\ sent[k].method = "POST"
                  /\ sent[k].url = ApiOrigin \o <<"graphql">>
                  /\ sent[k].body.val.variables.ids = ExpectedChunk(call.ids, k)
                  /\ Len(sent[k].body.val.variables.ids) \in 1..ChunkSize
            /\ pc = "wait" => Len(sent) = Len(recv) + 1
            /\ pc = "done" =>
                  /\ Len(sent) = need
                  /\ Len(recv) = need
                  /\ result.kind = "Ok"
                  /\ DOMAIN result.val = {n.val.databaseId : n \in nodes}
                  /\ \A n \in nodes : result.val[n.val.databaseId] = n.val.login

C7_Witness ==
    /\ call.op = "usernames"
    /\ Len(call.ids) = MaxIds
    /\ pc = "done"
    /\ \A k \in DOMAIN recv : GoodQuery(recv[k])
    /\ Len(sent) = ChunksNeeded(MaxIds)
    /\ Len(sent) > 2
    /\ result.kind = "Ok"
    /\ Cardinality(DOMAIN result.val) \in 1..(MaxIds - 1)
    /\ \E k \in DOMAIN recv : \E i \in DOMAIN recv[k].body.val.data.val.nodes :
          recv[k].body.val.data.val.nodes[i] = None

\* C8: team_memberships of a team without an id has returned the empty mapping as soon
\* as it is called and has dispatched no request, whatever dry_run is.
C8_UnpersistedTeamShortCircuits ==
    (call.op = "team_memberships" /\ ~call.team.id.some) =>
        /\ pc = "done"
        /\ sent = <<>>
        /\ result = Ok(EmptyMap)

C8_Witness ==
    /\ ~dry_run
    /\ call.op = "team_memberships"
    /\ ~call.team.id.some
    /\ pc = "done"
    /\ sent = <<>>
    /\ result = Ok(EmptyMap)

\* C9: while all queries of a team_memberships call on a team with an id succeed, the
\* first query has an empty cursor, the query after a page has that page's endCursor,
\* the call goes on querying unless the response just received is a page with
\* hasNextPage = false, and then it returns, keyed by user id, the (login, role) of the
\* last edge of each user over all pages received.
IsPage(r) == GoodQuery(r) /\ r.body.val.data.val.node.some
PageOf(r) == r.body.val.data.val.node.val.members

RECURSIVE AllEdges(_)
AllEdges(responses) ==
    IF responses = <<>> THEN <<>>
    ELSE (IF IsPage(Head(responses)) THEN PageOf(Head(responses)).edges ELSE <<>>)
         \o AllEdges(Tail(responses))

RoleOf(w) == CASE w = "MEMBER" -> "Member" [] w = "MAINTAINER" -> "Maintainer"

ExpectedMembers(responses) ==
    LET edges == AllEdges(responses)
        users == {edges[i].node.databaseId : i \in DOMAIN edges}
        last(u) == CHOOSE i \in DOMAIN edges :
                      /\ edges[i].node.databaseId = u
                      /\ \A j \in DOMAIN edges : edges[j].node.databaseId = u => j <= i
    IN  [u \in users |-> [username |-> edges[last(u)].node.login,
                          role |-> RoleOf(edges[last(u)].role)]]

C9_MembershipsFollowCursor ==
    (/\ call.op = "team_memberships"
     /\ call.team.id.some
     /\ \A k \in DOMAIN recv : GoodQuery(recv[k])) =>
        LET n == Len(recv)
        IN  /\ Len(sent) >= 1
            /\ sent[1].body.val.variables.cursor = None
            /\ \A k \in DOMAIN sent :
                  /\ sent[k].method = "POST"
                  /\ sent[k].url = ApiOrigin \o <<"graphql">>
                  /\ sent[k].body.val.variables.team = <<"base64", "04:Team", call.team.id.val>>
            /\ \A k \in DOMAIN recv : (IsPage(recv[k]) /\ Len(sent) > k) =>
                  sent[k + 1].body.val.variables.cursor = PageOf(recv[k]).pageInfo.endCursor
            /\ IF n >= 1 /\ IsPage(recv[n]) /\ ~PageOf(recv[n]).pageInfo.hasNextPage
               THEN /\ pc = "done"
                    /\ Len(sent) = n
                    /\ result = Ok(ExpectedMembers(recv))
               ELSE /\ pc = "wait"
                    /\ Len(sent) = n + 1

C9_Witness ==
    /\ call.op = "team_memberships"
    /\ pc = "done"
    /\ Len(recv) = MaxQueries
    /\ \A k \in DOMAIN recv : IsPage(recv[k])
    /\ PageOf(recv[1]).pageInfo.endCursor # PageOf(recv[2]).pageInfo.endCursor
    /\ Len(PageOf(recv[1]).edges) > 1
    /\ Len(PageOf(recv[2]).edges) = 1
    /\ result.kind = "Ok"
    /\ result.val[1].username = "alice"

\* C10: a read call made on a client with dry-run on and on a client with dry-run off,
\* both given the same responses, is at every moment at the same point in both, with
\* the same requests sent and the same result; it has sent a request (unless it is
\* usernames of no ids or team_memberships of a team without an id) and it has not run
\* into the dry-run abort.
TakesNoRequest(c) ==
    \/ c.op = "usernames" /\ c.ids = <<>>
    \/ c.op = "team_memberships" /\ ~c.team.id.some

C10_ReadsAlikeInBothModes ==
    call.op \in ReadOps =>
        /\ shadow.pc = pc
        /\ shadow.sent = sent
        /\ shadow.recv = recv
        /\ shadow.result = result
        /\ result # DryRunAbort
        /\ pc # "idle"
        /\ ~TakesNoRequest(call) => Len(sent) >= 1

C10_Witness ==
    /\ dry_run
    /\ call.op = "org_teams"
    /\ pc = "done"
    /\ Len(sent) = 2
    /\ result.kind = "Ok"
    /\ shadow.pc = "done"
    /\ shadow.result = result

\* C11: in every operation, once a response is a failed request (a transport failure,
\* or a status outside 200..299 that the operation does not map to absent) or the
\* step that accumulates it fails (the body, the Link header or the GraphQL envelope
\* is unusable), that response is the last one of the call, no request follows it,
\* and the call has returned an error.
MappedToAbsent(c, r) ==
    r.status = 404 /\ c.op \in FetchOps \cup {"update_branch_protection"}

RequestFailed(c, r) ==
    \/ r.kind = "transport_error"
    \/ r.kind = "http" /\ ~(r.status \in 200..299) /\ ~MappedToAbsent(c, r)

AccumulationFailed(c, r) ==
    /\ r.kind = "http"
    /\ r.status \in 200..299
    /\ CASE c.op \in FetchOps -> r.status = 200 /\ ~r.body.json
         [] c.op \in {"create_team", "create_repo"} -> ~r.body.json
         [] c.op \in ListOps -> (r.link.present /\ ~r.link.parses) \/ ~r.body.json
         [] c.op \in GraphOps -> ~GoodQuery(r)
         [] OTHER -> FALSE

FailedAtOnce(k) ==
    /\ pc = "done"
    /\ result.kind = "Err"
    /\ Len(recv) = k
    /\ Len(sent) = k

C11_FailureEndsTheCall ==
    \A k \in DOMAIN recv :
        (RequestFailed(call, recv[k]) \/ AccumulationFailed(call, recv[k])) => FailedAtOnce(k)

\* The part of C11 that the code keeps: the same statement with the failed request
\* taken as reqwest's error_for_status takes it, a transport failure or a 4xx/5xx
\* status.
NoRetryAfterErrorStatus ==
    \A k \in DOMAIN recv :
        (\/ recv[k].kind = "transport_error"
         \/ recv[k].kind = "http" /\ IsErrorStatus(recv[k].status)
                                  /\ ~MappedToAbsent(call, recv[k])
         \/ AccumulationFailed(call, recv[k])) => FailedAtOnce(k)

\* C12: under dry-run create_team has returned, without a request, a team with no id
\* and the name, description and privacy it was called with, and create_repo a repo
\* with the name and org it was called with and the description it was called with,
\* present; with dry-run off a create call that has returned a value has sent one
\* request, a POST, and the value is the one decoded from the response to it.
C12_CreateSynthesizesUnderDryRun ==
    /\ (call.op = "create_team" /\ dry_run) =>
          /\ pc = "done"
          /\ sent = <<>>
          /\ result.kind = "Ok"
          /\ ~result.val.id.some
          /\ result.val.name = call.name
          /\ result.val.description = call.description
          /\ result.val.privacy = call.privacy
    /\ (call.op = "create_repo" /\ dry_run) =>
          /\ pc = "done"
          /\ sent = <<>>
          /\ result.kind = "Ok"
          /\ result.val.name = call.name
          /\ result.val.org = call.org
          /\ result.val.description.some
          /\ result.val.description.val = call.description
    /\ (call.op \in {"create_team", "create_repo"} /\ ~dry_run) =>
          /\ pc \in {"wait", "done"}
          /\ Len(sent) = 1
          /\ sent[1].method = "POST"
          /\ (pc = "done" /\ result.kind = "Ok") =>
                /\ Len(recv) = 1
                /\ recv[1].kind = "http"
                /\ recv[1].body.json
                /\ LET w == recv[1].body.val
                   IN  IF call.op = "create_team"
                       THEN result.val = [id |-> [some |-> TRUE, val |-> w.id],
                                          name |-> w.name,
                                          description |-> w.description,
                                          privacy |-> IF w.privacy = "closed"
                                                      THEN "Closed" ELSE "Secret"]
                       ELSE result.val = [name |-> w.name, org |-> w.owner.login,
                                          description |-> w.description,
                                          default_branch |-> w.default_branch]

\* A dry-run create_repo whose name is not the one the platform would answer with.
C12_Witness ==
    /\ dry_run
    /\ call.op = "create_repo"
    /\ call.name = "graphql-x"
    /\ pc = "done"
    /\ sent = <<>>
    /\ result.kind = "Ok"
    /\ result.val.name = "graphql-x"
    /\ result.val.description = [some |-> TRUE, val |-> "a description"]

\* C13: if from some moment on no response reports hasNextPage = true, then every
\* team_memberships call that is waiting for the answer to a query, each query being
\* answered, eventually stops waiting: it has returned.
ReportsMore ==
    /\ call.op = "team_memberships"
    /\ recv # <<>>
    /\ IsPage(Last(recv))
    /\ PageOf(Last(recv)).pageInfo.hasNextPage

C13_MembershipsTerminate ==
    (<>[](~ReportsMore)) =>
        [](((call.op = "team_memberships") /\ (pc = "wait")) => <>(pc # "wait"))

\* C14: whatever public operations are called one after the other, with dry-run on or
\* off, no call has run into the abort of the request builder; under dry-run every
\* request that was built is a GET or the POST to the GraphQL endpoint, and in both
\* modes the only request other than a GET that a read operation builds is that POST.
IsGraphqlPost(r) == r.method = "POST" /\ r.url = <<"https://", "api.github.com/", "graphql">>

C14_DryRunAbortUnreachable ==
    /\ result # [kind |-> "Panic", msg |-> "Called a non-GET request in dry run mode"]
    /\ dry_run => \A k \in DOMAIN sent : sent[k].method = "GET" \/ IsGraphqlPost(sent[k])
    /\ call.op \in ReadOps =>
          \A k \in DOMAIN sent : sent[k].method = "GET" \/ IsGraphqlPost(sent[k])
    /\ (dry_run /\ call.op \in MutatingOps) => sent = <<>>

\* Under dry-run a request other than a GET has gone through the request builder.
C14_Witness ==
    /\ dry_run
    /\ call.op = "usernames"
    /\ pc = "done"
    /\ Len(sent) >= 2
    /\ \A k \in DOMAIN sent : IsGraphqlPost(sent[k])
    /\ result.kind = "Ok"

====
